---- MODULE Spec2Model ----
(***************************************************************************)
(* Model of cs_plot_download.py: the URL parser, the link extractor, the   *)
(* file fetcher, the authenticator and the main flow that strings them     *)
(* together around one browser session.                                    *)
(*                                                                         *)
(* Python strings are sequences of one-character strings, so that the      *)
(* string operations of the script (find, split, endswith, lower, slices,  *)
(* the regular expressions) are computed rather than assumed.              *)
(***************************************************************************)
EXTENDS Integers, Sequences, FiniteSets, TLC

VARIABLES
    pc,            \* position of the main flow
    url,           \* args.url
    parsed,        \* result of parse_job_url
    email,         \* args.email, a string (empty when not given)
    password,      \* args.password
    driver,        \* "none" | "open" | "quit"
    quitCount,     \* number of driver.quit() calls
    pending,       \* exception in flight inside main's try block
    exitCode,      \* process exit status, NotExited while running
    trace,         \* the steps of main taken so far, in order
    raised,        \* whether an exception escaped a step of main
    loginPage,     \* what the login-page test of main saw
    loginRun,      \* what login_to_cryosparc did and returned
    anchors,       \* the <a> elements of the page
    ai,            \* number of anchors the extractor has consumed
    file_links,    \* category -> list of entries
    ci,            \* download loop: position in the category order
    idx,           \* download loop: enumerate() index in the category
    fs,            \* the output tree: path -> content
    attempts       \* the calls of download_file_with_selenium so far

vars == <<pc, url, parsed, email, password, driver, quitCount, pending,
          exitCode, trace, raised, loginPage, loginRun, anchors, ai, file_links,
          ci, idx, fs, attempts>>

mainVars == <<email, password, driver, quitCount, pending, raised, loginPage, loginRun>>
pageVars == <<anchors, ai, file_links, ci, idx, fs, attempts>>

(***************************************************************************)
(* Strings                                                                 *)
(***************************************************************************)
UpperAlpha == <<"A","B","C","D","E","F","G","H","I","J","K","L","M","N","O","P","Q","R","S","T","U","V","W","X","Y","Z">>
LowerAlpha == <<"a","b","c","d","e","f","g","h","i","j","k","l","m","n","o","p","q","r","s","t","u","v","w","x","y","z">>
Digits == <<"0","1","2","3","4","5","6","7","8","9">>

Range(s) == {s[i] : i \in 1..Len(s)}

\* str.lower(), one character
LowerChar(c) ==
    IF \E i \in 1..Len(UpperAlpha) : UpperAlpha[i] = c
    THEN LowerAlpha[CHOOSE i \in 1..Len(UpperAlpha) : UpperAlpha[i] = c]
    ELSE c

\* str.lower()
Lower(s) == [i \in 1..Len(s) |-> LowerChar(s[i])]

\* s[i:] with a 0-based Python index i
From(s, i) == SubSeq(s, i + 1, Len(s))

\* s[:i] with a 0-based Python index i
Upto(s, i) == SubSeq(s, 1, i)

\* str.startswith
StartsWith(s, p) == Len(p) <= Len(s) /\ SubSeq(s, 1, Len(p)) = p

\* str.endswith
EndsWith(s, p) ==
    Len(p) <= Len(s) /\ SubSeq(s, Len(s) - Len(p) + 1, Len(s)) = p

\* sub in s
Contains(s, sub) ==
    \E i \in 0..(Len(s) - Len(sub)) : SubSeq(s, i + 1, i + Len(sub)) = sub

\* s.find(c) for a set of characters: the first 1-based position holding one
\* of them at or after position start, 0 when there is none
FindAny(s, cs, start) ==
    IF \E i \in start..Len(s) : s[i] \in cs
    THEN CHOOSE i \in start..Len(s) :
            s[i] \in cs /\ \A j \in start..(i - 1) : s[j] \notin cs
    ELSE 0

\* s.rfind(c): the last 1-based position holding c, 0 when there is none
RFind(s, c) ==
    IF \E i \in 1..Len(s) : s[i] = c
    THEN CHOOSE i \in 1..Len(s) : s[i] = c /\ \A j \in (i + 1)..Len(s) : s[j] # c
    ELSE 0

\* str.split(sep) for a one-character separator
RECURSIVE Split(_, _)
Split(s, sep) ==
    LET i == FindAny(s, {sep}, 1)
    IN  IF i = 0 THEN <<s>>
        ELSE <<Upto(s, i - 1)>> \o Split(From(s, i), sep)

\* str(n) for n >= 0
RECURSIVE Str(_)
Str(n) ==
    IF n < 10 THEN <<Digits[n + 1]>>
    ELSE Str(n \div 10) \o <<Digits[(n % 10) + 1]>>

Whitespace == {" ", "\t", "\n"}

\* str.strip()
RECURSIVE Strip(_)
Strip(s) ==
    IF s = <<>> THEN s
    ELSE IF Head(s) \in Whitespace THEN Strip(Tail(s))
    ELSE IF s[Len(s)] \in Whitespace THEN Strip(Upto(s, Len(s) - 1))
    ELSE s

(***************************************************************************)
(* urllib.parse.urlparse, as far as the script reads its result            *)
(***************************************************************************)
SchemeChars == Range(UpperAlpha) \cup Range(LowerAlpha) \cup Range(Digits)
                 \cup {"+", "-", "."}
Letters == Range(UpperAlpha) \cup Range(LowerAlpha)

\* urlsplit works through the URL from left to right; each operator below
\* is one of its stages and hands the pieces found so far to the next.
UrlParts(scheme, netloc, rest, fragment, qm) ==
    [scheme |-> scheme, netloc |-> netloc,
     path |-> IF qm = 0 THEN rest ELSE Upto(rest, qm - 1),
     query |-> IF qm = 0 THEN <<>> ELSE From(rest, qm),
     fragment |-> fragment]

\* if '?' in url: url, query = url.split('?', 1)
SplitQuery(scheme, netloc, rest, fragment) ==
    UrlParts(scheme, netloc, rest, fragment, FindAny(rest, {"?"}, 1))

SplitFragmentAt(scheme, netloc, rest, hash) ==
    IF hash = 0 THEN SplitQuery(scheme, netloc, rest, <<>>)
    ELSE SplitQuery(scheme, netloc, Upto(rest, hash - 1), From(rest, hash))

\* if '#' in url: url, fragment = url.split('#', 1)
SplitFragment(scheme, netloc, rest) ==
    SplitFragmentAt(scheme, netloc, rest, FindAny(rest, {"#"}, 1))

SplitNetlocAt(scheme, rest, delim) ==
    IF delim = 0 THEN SplitFragment(scheme, From(rest, 2), <<>>)
    ELSE SplitFragment(scheme, SubSeq(rest, 3, delim - 1), From(rest, delim - 1))

\* if url[:2] == '//': netloc, url = _splitnetloc(url, 2)
SplitNetloc(scheme, rest) ==
    IF StartsWith(rest, <<"/","/">>)
    THEN SplitNetlocAt(scheme, rest, FindAny(rest, {"/", "?", "#"}, 3))
    ELSE SplitFragment(scheme, <<>>, rest)

\* the scheme is what precedes the first ':', when it is made of scheme
\* characters and starts with a letter; it is lower-cased
SplitScheme(u, colon) ==
    IF /\ colon > 1
       /\ u[1] \in Letters
       /\ \A i \in 1..(colon - 1) : u[i] \in SchemeChars
    THEN SplitNetloc(Lower(Upto(u, colon - 1)), From(u, colon))
    ELSE SplitNetloc(<<>>, u)

UrlParse(u) == SplitScheme(u, FindAny(u, {":"}, 1))

(***************************************************************************)
(* parse_job_url                                                           *)
(***************************************************************************)
NoMatch == <<"<no match>">>

\* whether r'job\(([^)]+)\)' matches at position i, given the position of
\* the first ')' at or after the start of the group
JobMatchAt(frag, i, close) ==
    SubSeq(frag, i, i + 3) = <<"j","o","b","(">> /\ close > i + 4

\* re.search(r'job\(([^)]+)\)', fragment): group 1 of the leftmost match
RECURSIVE JobSearch(_, _)
JobSearch(frag, i) ==
    IF i + 3 > Len(frag) THEN NoMatch
    ELSE IF JobMatchAt(frag, i, FindAny(frag, {")"}, i + 4))
    THEN SubSeq(frag, i + 4, FindAny(frag, {")"}, i + 4) - 1)
    ELSE JobSearch(frag, i + 1)

ValueError == [status |-> "ValueError", base |-> <<>>, project |-> <<>>, job |-> <<>>]

ExpectedParts == 2

\* faulty variant of JobParts: extra hyphen-separated parts are ignored
JobParts_atleast(base_url, parts) ==
    IF Len(parts) < ExpectedParts THEN ValueError
    ELSE [status |-> "ok", base |-> base_url, project |-> parts[1],
          job |-> parts[2]]

\* lines 57-64
JobParts(base_url, parts) ==
    IF Len(parts) # ExpectedParts THEN ValueError
    ELSE [status |-> "ok", base |-> base_url, project |-> parts[1],
          job |-> parts[2]]

\* lines 49-57
JobOf(base_url, job_full) ==
    IF job_full = NoMatch THEN ValueError
    ELSE JobParts(base_url, Split(job_full, "-"))

\* lines 44-49
JobOfParsed(p) ==
    JobOf(p.scheme \o <<":","/","/">> \o p.netloc, JobSearch(p.fragment, 1))

ParseJobUrl(u) == JobOfParsed(UrlParse(u))

(***************************************************************************)
(* Inputs of the URL parser                                                *)
(***************************************************************************)
Schemes == {<<"h","t","t","p">>, <<"h","t","t","p","s">>, <<"H","T","T","P">>}
Hosts == {<<"m","a","r","s",":","4","2","0","0","0">>, <<"h">>}
Paths == {<<"/">>, <<"/","b","r","o","w","s","e","/","P","2","2","-","W","1","1","-","J","*">>, <<"/","j","o","b","(","X","-","Y",")">>, <<"/","b","?","q","=","1">>}
Ids == {<<"P","2","2">>, <<"J","4","7","5">>, <<"p">>}

JobUrl(s, h, p, project, job) ==
    s \o <<":","/","/">> \o h \o p \o <<"#","j","o","b","(">> \o project \o <<"-">> \o job \o <<")">>

ValidJobUrls ==
    {JobUrl(s, h, p, a, b) : s \in Schemes, h \in Hosts, p \in Paths,
                             a \in Ids, b \in Ids}

OtherTails ==
    {<<>>, <<"#">>, <<"#","j","o","b","(",")">>, <<"#","j","o","b","(","P","2","2","J","4","7","5",")">>, <<"#","j","o","b","(","P","2","2","-","W","1","1","-","J","4","7","5",")">>,
     <<"#","j","o","b","(","P","2","2","-","J","4","7","5">>, <<"#","j","o","b","s","(","P","2","2","-","J","4","7","5",")">>, <<"#","J","O","B","(","P","2","2","-","J","4","7","5",")">>, <<"#","j","o","b","(","-",")">>,
     <<"#","j","o","b","(","-","-",")">>, <<"#","x","#","j","o","b","(",")","j","o","b","(","P","2","2",")">>, <<"?","j","o","b","(","P","2","2","-","J","4","7","5",")">>}

OtherUrls ==
    {s \o <<":","/","/">> \o h \o p \o t : s \in Schemes, h \in Hosts, p \in Paths,
                                 t \in OtherTails}
      \cup {<<"m","a","r","s",":","4","2","0","0","0","/","b","r","o","w","s","e","#","j","o","b","(","P","2","2","-","J","4","7","5",")">>, <<>>, <<"j","o","b","(","P","2","2","-","J","4","7","5",")">>}

ParseUrls == ValidJobUrls \cup OtherUrls

NotExited == 0 - 1

NoLoginPage == [detected |-> FALSE, current_url |-> <<>>, page_source |-> <<>>]
NoLoginRun == [called |-> FALSE, filled |-> FALSE, clicked |-> FALSE,
               form |-> FALSE, stillLogin |-> FALSE, result |-> FALSE]
NoFiles == [p \in {} |-> <<>>]

Categories == <<"png", "pdf", "txt", "xml", "bild">>
ExtChars == [png |-> <<"p","n","g">>, pdf |-> <<"p","d","f">>, txt |-> <<"t","x","t">>, xml |-> <<"x","m","l">>,
             bild |-> <<"b","i","l","d">>]
CategorySet == Range(Categories)
EmptyLinks == [c \in CategorySet |-> <<>>]


(***************************************************************************)
(* extract_file_links                                                      *)
(***************************************************************************)
\* An entry appended at line 154 is a tuple (url, download name); an entry
\* appended at line 164 is the bare url string.
TupleEntry(u, n) == [tuple |-> TRUE, url |-> u, name |-> n]
StrEntry(u) == [tuple |-> FALSE, url |-> u, name |-> <<>>]

\* urllib.parse.urljoin(base_url, href) for a base without a path and an
\* href that is absolute, host-relative or a relative path
UrlJoin(base, href) ==
    IF UrlParse(href).scheme # <<>> THEN href
    ELSE IF StartsWith(href, <<"/">>) THEN base \o href
    ELSE base \o <<"/">> \o href

\* faulty variant of TagMatch: the pattern without re.IGNORECASE
TagMatch_casesensitive(ext, link_text) ==
    /\ Len(link_text) >= 2
    /\ link_text[1] = "["
    /\ link_text[Len(link_text)] = "]"
    /\ Strip(SubSeq(link_text, 2, Len(link_text) - 1)) = ExtChars[ext]

\* re.match(rf'^\[\s*{ext}\s*\]$', link_text, re.IGNORECASE)
TagMatch(ext, link_text) ==
    /\ Len(link_text) >= 2
    /\ link_text[1] = "["
    /\ link_text[Len(link_text)] = "]"
    /\ Lower(Strip(SubSeq(link_text, 2, Len(link_text) - 1))) = ExtChars[ext]

\* lines 147-149: the first category, in the order of file_links.keys(),
\* whose bracket tag the link text matches
TagCategory(link_text) ==
    IF \E k \in 1..Len(Categories) : TagMatch(Categories[k], link_text)
    THEN Categories[CHOOSE k \in 1..Len(Categories) :
            /\ TagMatch(Categories[k], link_text)
            /\ \A j \in 1..(k - 1) : ~TagMatch(Categories[j], link_text)]
    ELSE "none"

\* href_lower.endswith(f'.{ext}')
HasSuffix(ext, href_lower) == EndsWith(href_lower, <<".">> \o ExtChars[ext])

\* lines 160-161: the first category whose extension the href ends with
SuffixCategory(href_lower) ==
    IF \E k \in 1..Len(Categories) : HasSuffix(Categories[k], href_lower)
    THEN Categories[CHOOSE k \in 1..Len(Categories) :
            /\ HasSuffix(Categories[k], href_lower)
            /\ \A j \in 1..(k - 1) : ~HasSuffix(Categories[j], href_lower)]
    ELSE "none"

\* full_url in file_links[ext]: list membership by ==, and a str never
\* equals a tuple
UrlInList(full_url, list) ==
    \E i \in 1..Len(list) : ~list[i].tuple /\ list[i].url = full_url

\* lines 150-155: the bracket-tag rule
AddTagged(fl, a, full_url, tagCat) ==
    IF tagCat # "none" /\ ~UrlInList(full_url, fl[tagCat])
    THEN [fl EXCEPT ![tagCat] = Append(@, TupleEntry(full_url, a.download))]
    ELSE fl

\* lines 162-164: the extension rule
AddFallback(fl, full_url, extCat) ==
    IF extCat # "none" /\ ~UrlInList(full_url, fl[extCat])
    THEN [fl EXCEPT ![extCat] = Append(@, StrEntry(full_url))]
    ELSE fl

\* one iteration of the loop over the anchors, lines 137-167; a stale
\* element raises on its first attribute read and is skipped (line 166)
ProcessAnchor(fl, a, base_url) ==
    IF a.stale THEN fl
    ELSE IF a.href = <<>> THEN fl
    ELSE AddFallback(AddTagged(fl, a, UrlJoin(base_url, a.href),
                               TagCategory(Strip(a.text))),
                     UrlJoin(base_url, a.href),
                     SuffixCategory(Lower(a.href)))

(***************************************************************************)
(* download_file_with_selenium and download_files_by_extension             *)
(***************************************************************************)
MalformedChars == {" ", "\"", "<", ">"}

\* the guard of line 175
Malformed(u) == \E i \in 1..Len(u) : u[i] \in MalformedChars

\* what the injected fetch can do: return content, raise (for instance on a
\* non-OK status), or return nothing
Outcomes == {"ok", "raise", "empty"}

\* faulty variant of FetchWrites: without the `if result:` test of line 201
FetchWrites_nocheck(u, outcome) == ~Malformed(u) /\ outcome # "raise"

\* lines 175-213: whether the file is written (and True returned)
FetchWrites(u, outcome) == ~Malformed(u) /\ outcome = "ok"

\* os.path.basename
Basename(p) == From(p, RFind(p, "/"))

SplitExtAt(p, sepIndex, dotIndex) ==
    IF /\ dotIndex > sepIndex
       /\ \E k \in (sepIndex + 1)..(dotIndex - 1) : p[k] # "."
    THEN <<Upto(p, dotIndex - 1), From(p, dotIndex - 1)>>
    ELSE <<p, <<>>>>

\* os.path.splitext
SplitExt(p) == SplitExtAt(p, RFind(p, "/"), RFind(p, "."))

MinNameLen == 3

\* f'.{ext}'
DotExt(ext) == <<".">> \o ExtChars[ext]

\* lines 229-233
DownloadNameOf(item) == IF item.tuple THEN item.name ELSE <<>>

\* faulty variant of CollapseDouble: the declared name is kept as it is
CollapseDouble_keep(filename, dotext) == filename

\* lines 238-240
CollapseDouble(filename, dotext) ==
    IF EndsWith(filename, dotext \o dotext)
    THEN Upto(filename, Len(filename) - Len(dotext))
    ELSE filename

\* lines 242-246
NameFromUrl(base, i, dotext) ==
    IF base = <<>> \/ Len(base) < MinNameLen THEN <<"f","i","l","e","_">> \o Str(i) \o dotext
    ELSE IF ~EndsWith(base, dotext) THEN base \o dotext
    ELSE base

\* lines 236-246: the file name before collision handling
TargetFilename(ext, i, item) ==
    IF DownloadNameOf(item) # <<>>
    THEN CollapseDouble(DownloadNameOf(item), DotExt(ext))
    ELSE NameFromUrl(Basename(UrlParse(item.url).path), i, DotExt(ext))

\* ext_dir / name
PathOf(ext, name) == <<ext, name>>

\* line 254: f"{name}_{counter}{extension}"
Numbered(split, counter) == split[1] \o <<"_">> \o Str(counter) \o split[2]

\* faulty variant of ResolveName: `if` in place of `while`
ResolveName_once(existing, ext, filename, output_name, counter) ==
    IF PathOf(ext, output_name) \notin existing THEN output_name
    ELSE Numbered(SplitExt(filename), counter)

\* lines 251-255: the first name that no existing file occupies
RECURSIVE ResolveName(_, _, _, _, _)
ResolveName(existing, ext, filename, output_name, counter) ==
    IF PathOf(ext, output_name) \notin existing THEN output_name
    ELSE ResolveName(existing, ext, filename,
                     Numbered(SplitExt(filename), counter), counter + 1)

\* lines 248-257: the call of download_file_with_selenium for one entry
AttemptNamed(ext, i, item, existing, fetched, filename) ==
    [ext |-> ext, idx |-> i, url |-> item.url, filename |-> filename,
     name |-> ResolveName(existing, ext, filename, filename, 1),
     outcome |-> IF Malformed(item.url) THEN "skipped" ELSE fetched,
     ok |-> FetchWrites(item.url, fetched)]

\* lines 227-257: one iteration of the loop over the entries
AttemptOf(ext, i, item, existing, fetched) ==
    AttemptNamed(ext, i, item, existing, fetched, TargetFilename(ext, i, item))

\* open(path, 'wb').write(content): creates or replaces the file
WriteFile(files, path, content) ==
    [p \in DOMAIN files \cup {path} |-> IF p = path THEN content ELSE files[p]]

OldContent == <<"previous run", 0>>

(***************************************************************************)
(* login_to_cryosparc                                                      *)
(***************************************************************************)
\* line 294: 'login' in driver.current_url.lower() or 'Log in' in page_source
StillOnLogin(current_url, page_source) ==
    Contains(Lower(current_url), <<"l","o","g","i","n">>) \/ Contains(page_source, <<"L","o","g"," ","i","n">>)

\* What the page does during one call.  form: the email field appears within
\* the wait of line 266; fields: the password field and the submit button are
\* found (lines 272, 281); enabled: the button loses its disabled attribute
\* within the wait of line 284; the url and source are those after line 291.
LoginEnvs(urls, sources) ==
    [form : BOOLEAN, fields : BOOLEAN, enabled : BOOLEAN,
     current_url : urls, page_source : sources]

LoginToCryosparc(env) ==
    LET base == [NoLoginRun EXCEPT !.called = TRUE, !.form = env.form]
    IN  IF ~env.form
        THEN \* TimeoutException from line 266, caught at line 307
             [base EXCEPT !.result = TRUE]
        ELSE IF ~env.fields
        THEN \* NoSuchElementException, caught at line 310
             [base EXCEPT !.result = FALSE]
        ELSE IF ~env.enabled
        THEN \* TimeoutException from line 284, caught at line 307
             [base EXCEPT !.filled = TRUE, !.result = TRUE]
        ELSE LET still == StillOnLogin(env.current_url, env.page_source)
             IN  [base EXCEPT !.filled = TRUE, !.clicked = TRUE,
                              !.stillLogin = still, !.result = ~still]

(***************************************************************************)
(* main                                                                    *)
(***************************************************************************)
\* line 369
LoginPageDetected(current_url, page_source) ==
    Contains(Lower(current_url), <<"l","o","g","i","n">>) \/ Contains(page_source, <<"L","o","g"," ","i","n">>)

\* faulty variant of CredentialsMissing: `and` in place of `or`
CredentialsMissing_both(e, p) == e = <<>> /\ p = <<>>

\* line 370: not args.email or not args.password
CredentialsMissing(e, p) == e = <<>> \/ p = <<>>

\* faulty variant of ExceptHandler: the error is reported, sys.exit(1) is missing
ExceptHandler_swallow(exc) == "none"

\* lines 411-415: the handler ends in sys.exit(1)
ExceptHandler(exc) == "SystemExit"

\* faulty variant of FinallyQuits: quit at the end of the try block only
FinallyQuits_onsuccess(d, exc) == d = "open" /\ exc = "none"

\* lines 417-419: the finally clause quits whenever a session exists
FinallyQuits(d, exc) == d = "open"

\* the exit status of the interpreter
ExitStatus(exc) == IF exc = "none" THEN 0 ELSE 1

\* inputs of the main flow
MainUrls == {<<"h","t","t","p",":","/","/","h","/","b","#","j","o","b","(","P","2","2","-","J","4","7","5",")">>, <<"h","t","t","p",":","/","/","h","/","b">>,
             <<"h","t","t","p",":","/","/","h","/","b","#","j","o","b","(","P","2","2","-","W","1","1","-","J","4","7","5",")">>}
Emails == {<<>>, <<"u","@","x">>}
Passwords == {<<>>, <<"p","w">>}
CurrentUrls == {<<"h","t","t","p",":","/","/","h","/","l","o","g","i","n">>, <<"h","t","t","p",":","/","/","h","/","L","o","g","i","n","?","n","e","x","t","=","b">>, <<"h","t","t","p",":","/","/","h","/","b">>}
PageSources == {<<"<","h","1",">","L","o","g"," ","i","n","<","/","h","1",">">>, <<"<","h","1",">","l","o","g"," ","i","n","<","/","h","1",">">>, <<"<","a",">","[","p","n","g","]","<","/","a",">">>}

\* files a previous run left in the output tree
PlotPng == PathOf("png", <<"p","l","o","t",".","p","n","g">>)
Plot1Png == PathOf("png", <<"p","l","o","t","_","1",".","p","n","g">>)
PreTrees ==
    {[p \in d |-> OldContent] : d \in {{}, {PlotPng}, {PlotPng, Plot1Png}}}

Anchor(t, h, d) == [text |-> t, href |-> h, download |-> d, stale |-> FALSE]
StaleAnchor == [text |-> <<"[","p","n","g","]">>, href |-> <<"/","f","/","9">>, download |-> <<>>,
                stale |-> TRUE]

PageAnchors ==
    { Anchor(<<"[","P","n","g","]">>, <<"/","f","/","1">>, <<"p","l","o","t",".","p","n","g">>),
      Anchor(<<"[","P","N","G","]">>, <<"/","d","/","p","l","o","t",".","p","n","g">>, <<>>),
      Anchor(<<"p","l","o","t">>, <<"h","t","t","p",":","/","/","h","/","d","/","p","l","o","t",".","p","n","g">>, <<>>),
      Anchor(<<" ","["," ","p","d","f"," ","]">>, <<"/","f","/","2">>, <<"t",".","p","d","f",".","p","d","f">>),
      Anchor(<<"[","p","d","f","]">>, <<"d","/","r",".","x","m","l">>, <<>>),
      Anchor(<<"m","o","r","e">>, <<"/","d","/">>, <<>>),
      Anchor(<<"[","t","x","t","]">>, <<"/","d","/","a","b">>, <<>>),
      Anchor(<<"[","b","i","l","d","]">>, <<"/","d","/","a"," ","b">>, <<>>),
      Anchor(<<"x">>, <<"/","d","/","m",".","B","I","L","D">>, <<>>),
      Anchor(<<"[","p","n","g","]">>, <<>>, <<"p","l","o","t",".","p","n","g">>),
      Anchor(<<"[","p"," ","n","g","]">>, <<"/","d","/","n","o","t","e","s","?","v","=","2">>, <<>>),
      StaleAnchor }

MaxAnchors == 2

AnchorLists(S, n) == UNION {[1..k -> S] : k \in 0..n}

MainPages ==
    { <<>>,
      <<Anchor(<<"[","P","N","G","]">>, <<"/","d","/","p","l","o","t",".","p","n","g">>, <<>>), Anchor(<<"[","b","i","l","d","]">>, <<"/","d","/","a"," ","b">>, <<>>)>>,
      <<Anchor(<<" ","["," ","p","d","f"," ","]">>, <<"/","f","/","2">>, <<"t",".","p","d","f",".","p","d","f">>)>> }

\* an exception escapes a step inside the try block of lines 357-409
Raise ==
    /\ pending' = "Exception"
    /\ raised' = TRUE
    /\ pc' = "except"

\* lines 340-348
ParseUrl ==
    /\ pc = "parse"
    /\ parsed' = ParseJobUrl(url)
    /\ trace' = Append(trace, "parse")
    /\ IF parsed'.status = "ok"
       THEN pc' = "mkdir" /\ exitCode' = exitCode
       ELSE pc' = "exit" /\ exitCode' = 1
    /\ UNCHANGED <<url, mainVars, pageVars>>

\* line 351: create_output_directory, outside the try block.  The tree may
\* hold files of an earlier run (mkdir(exist_ok=True)); an OSError escapes
\* main and the interpreter exits with status 1.
CreateOutputDirectory ==
    /\ pc = "mkdir"
    /\ trace' = Append(trace, "mkdir")
    /\ \/ /\ fs' \in PreTrees
          /\ pc' = "setup"
          /\ UNCHANGED <<exitCode, raised>>
       \/ /\ raised' = TRUE
          /\ exitCode' = 1
          /\ pc' = "exit"
          /\ fs' = fs
    /\ UNCHANGED <<url, parsed, email, password, driver, quitCount, pending,
                   loginPage, loginRun, anchors, ai, file_links, ci, idx,
                   attempts>>

\* lines 358-361
SetupDriver ==
    /\ pc = "setup"
    /\ trace' = Append(trace, "setup")
    /\ \/ driver' = "open" /\ pc' = "get" /\ UNCHANGED <<pending, raised>>
       \/ driver' = driver /\ Raise
    /\ UNCHANGED <<url, parsed, email, password, quitCount, exitCode,
                   loginPage, loginRun, pageVars>>

\* lines 365-369: load the page and test for the login page
LoadPage ==
    /\ pc = "get"
    /\ trace' = Append(trace, "load")
    /\ \/ \E cu \in CurrentUrls, ps \in PageSources :
            /\ loginPage' = [detected |-> LoginPageDetected(cu, ps),
                             current_url |-> cu, page_source |-> ps]
            /\ pc' = IF loginPage'.detected THEN "credentials" ELSE "wait"
            /\ UNCHANGED <<pending, raised>>
       \/ loginPage' = loginPage /\ Raise
    /\ UNCHANGED <<url, parsed, email, password, driver, quitCount, exitCode,
                   loginRun, pageVars>>

\* lines 370-373
CheckCredentials ==
    /\ pc = "credentials"
    /\ IF CredentialsMissing(email, password)
       THEN pending' = "SystemExit" /\ pc' = "finally"
       ELSE pending' = pending /\ pc' = "login"
    /\ UNCHANGED <<url, parsed, email, password, driver, quitCount, exitCode,
                   trace, raised, loginPage, loginRun, pageVars>>

\* lines 375-377
Login ==
    /\ pc = "login"
    /\ trace' = Append(trace, "login")
    /\ \E env \in LoginEnvs(CurrentUrls, PageSources) :
          loginRun' = LoginToCryosparc(env)
    /\ IF loginRun'.result
       THEN pending' = pending /\ pc' = "reload"
       ELSE pending' = "SystemExit" /\ pc' = "finally"
    /\ UNCHANGED <<url, parsed, email, password, driver, quitCount, exitCode,
                   raised, loginPage, pageVars>>

\* line 381
Reload ==
    /\ pc = "reload"
    /\ trace' = Append(trace, "reload")
    /\ \/ pc' = "wait" /\ UNCHANGED <<pending, raised>>
       \/ Raise
    /\ UNCHANGED <<url, parsed, email, password, driver, quitCount, exitCode,
                   loginPage, loginRun, pageVars>>

\* line 384: wait_for_page_load swallows its TimeoutException; any other
\* exception of the session escapes
WaitForPageLoad ==
    /\ pc = "wait"
    /\ trace' = Append(trace, "wait")
    /\ \/ pc' = "debug" /\ UNCHANGED <<pending, raised>>
       \/ Raise
    /\ UNCHANGED <<url, parsed, email, password, driver, quitCount, exitCode,
                   loginPage, loginRun, pageVars>>

DebugFile == PathOf("", <<"d","e","b","u","g","_","p","a","g","e",".","h","t","m","l">>)

\* lines 388-391
SaveDebugPage ==
    /\ pc = "debug"
    /\ \/ /\ fs' = WriteFile(fs, DebugFile, <<"page source", 0>>)
          /\ pc' = "find"
          /\ UNCHANGED <<pending, raised>>
       \/ fs' = fs /\ Raise
    /\ UNCHANGED <<url, parsed, email, password, driver, quitCount, exitCode,
                   trace, loginPage, loginRun, anchors, ai, file_links, ci,
                   idx, attempts>>

\* lines 395, 126-135: extract_file_links starts
FindAnchors ==
    /\ pc = "find"
    /\ trace' = Append(trace, "extract")
    /\ \/ /\ anchors' \in MainPages
          /\ ai' = 0
          /\ file_links' = EmptyLinks
          /\ pc' = "extract"
          /\ UNCHANGED <<pending, raised>>
       \/ UNCHANGED <<anchors, ai, file_links>> /\ Raise
    /\ UNCHANGED <<url, parsed, email, password, driver, quitCount, exitCode,
                   loginPage, loginRun, ci, idx, fs, attempts>>

\* lines 137-167: one anchor
ExtractAnchor ==
    /\ pc = "extract"
    /\ ai < Len(anchors)
    /\ file_links' = ProcessAnchor(file_links, anchors[ai + 1], parsed.base)
    /\ ai' = ai + 1
    /\ UNCHANGED <<pc, url, parsed, mainVars, exitCode, trace, anchors, ci,
                   idx, fs, attempts>>

\* lines 169, 397-405: the mapping is returned and the download pass starts
ExtractDone ==
    /\ pc = "extract"
    /\ ai = Len(anchors)
    /\ pc' = "download"
    /\ trace' = Append(trace, "fetch")
    /\ ci' = 1
    /\ idx' = 0
    /\ UNCHANGED <<url, parsed, mainVars, exitCode, anchors, ai, file_links,
                   fs, attempts>>

\* lines 203-204
FilesAfter(files, a) ==
    IF a.ok THEN WriteFile(files, PathOf(a.ext, a.name), <<a.ext, a.idx>>)
    ELSE files

\* lines 227-257: one entry of the current category
DownloadEntry ==
    /\ pc = "download"
    /\ ci <= Len(Categories)
    /\ idx < Len(file_links[Categories[ci]])
    /\ \E fetched \in Outcomes :
          attempts' = Append(attempts,
              AttemptOf(Categories[ci], idx, file_links[Categories[ci]][idx + 1],
                        DOMAIN fs, fetched))
    /\ fs' = FilesAfter(fs, attempts'[Len(attempts')])
    /\ idx' = idx + 1
    /\ UNCHANGED <<pc, url, parsed, mainVars, exitCode, trace, anchors, ai,
                   file_links, ci>>

\* lines 219-222: the next category (an empty one is skipped at once)
NextCategory ==
    /\ pc = "download"
    /\ ci <= Len(Categories)
    /\ idx >= Len(file_links[Categories[ci]])
    /\ ci' = ci + 1
    /\ idx' = 0
    /\ UNCHANGED <<pc, url, parsed, mainVars, exitCode, trace, anchors, ai,
                   file_links, fs, attempts>>

\* lines 408-409: the pass is over, the try block ends
DownloadDone ==
    /\ pc = "download"
    /\ ci > Len(Categories)
    /\ pc' = "finally"
    /\ UNCHANGED <<url, parsed, mainVars, exitCode, trace, pageVars>>

\* lines 411-415
Except ==
    /\ pc = "except"
    /\ pending' = ExceptHandler(pending)
    /\ pc' = "finally"
    /\ UNCHANGED <<url, parsed, email, password, driver, quitCount, exitCode,
                   trace, raised, loginPage, loginRun, pageVars>>

\* lines 417-419, then the interpreter exits
Finally ==
    /\ pc = "finally"
    /\ IF FinallyQuits(driver, pending)
       THEN /\ driver' = "quit"
            /\ quitCount' = quitCount + 1
            /\ trace' = Append(trace, "quit")
       ELSE UNCHANGED <<driver, quitCount, trace>>
    /\ exitCode' = ExitStatus(pending)
    /\ pc' = "exit"
    /\ UNCHANGED <<url, parsed, email, password, pending, raised, loginPage,
                   loginRun, pageVars>>

InitIdle ==
    /\ parsed = ValueError
    /\ driver = "none"
    /\ quitCount = 0
    /\ pending = "none"
    /\ exitCode = NotExited
    /\ trace = <<>>
    /\ raised = FALSE
    /\ loginPage = NoLoginPage
    /\ loginRun = NoLoginRun
    /\ anchors = <<>>
    /\ ai = 0
    /\ file_links = EmptyLinks
    /\ ci = 1
    /\ idx = 0
    /\ fs = NoFiles
    /\ attempts = <<>>

\* the main flow
Init ==
    /\ pc = "parse"
    /\ url \in MainUrls
    /\ email \in Emails
    /\ password \in Passwords
    /\ InitIdle

Next ==
    \/ ParseUrl
    \/ CreateOutputDirectory
    \/ SetupDriver
    \/ LoadPage
    \/ CheckCredentials
    \/ Login
    \/ Reload
    \/ WaitForPageLoad
    \/ SaveDebugPage
    \/ FindAnchors
    \/ ExtractAnchor
    \/ ExtractDone
    \/ DownloadEntry
    \/ NextCategory
    \/ DownloadDone
    \/ Except
    \/ Finally

Spec == Init /\ [][Next]_vars

\* the URL parser alone, over many URLs
InitParse ==
    /\ pc = "parse"
    /\ url \in ParseUrls
    /\ email = <<>>
    /\ password = <<>>
    /\ InitIdle

NextParse == ParseUrl

SpecParse == InitParse /\ [][NextParse]_vars

\* the link extractor and the file fetcher over many pages: the state of the
\* main flow when find_elements has returned, no login having been needed
PageUrl == <<"h","t","t","p",":","/","/","h","/","b","#","j","o","b","(","P","2","2","-","J","4","7","5",")">>

InitPage ==
    /\ pc = "extract"
    /\ url = PageUrl
    /\ parsed = ParseJobUrl(PageUrl)
    /\ email = <<>>
    /\ password = <<>>
    /\ driver = "open"
    /\ quitCount = 0
    /\ pending = "none"
    /\ exitCode = NotExited
    /\ trace = <<"parse", "mkdir", "setup", "load", "wait", "extract">>
    /\ raised = FALSE
    /\ loginPage = [detected |-> FALSE, current_url |-> <<"h","t","t","p",":","/","/","h","/","b">>,
                    page_source |-> <<"<","a",">","[","p","n","g","]","<","/","a",">">>]
    /\ loginRun = NoLoginRun
    /\ anchors \in AnchorLists(PageAnchors, MaxAnchors)
    /\ ai = 0
    /\ file_links = EmptyLinks
    /\ ci = 1
    /\ idx = 0
    /\ fs \in {WriteFile(t, DebugFile, <<"page source", 0>>) : t \in PreTrees}
    /\ attempts = <<>>

NextPage ==
    \/ ExtractAnchor
    \/ ExtractDone
    \/ DownloadEntry
    \/ NextCategory
    \/ DownloadDone

SpecPage == InitPage /\ [][NextPage]_vars

(***************************************************************************)
(* Properties                                                              *)
(***************************************************************************)
SessionCreated == driver # "none"

\* C1: on every path on which setup_driver returned a session, the session
\* is quit exactly once before the process exits (normal completion,
\* sys.exit(1) for missing credentials or failed login, an exception in any
\* later step); and after a URL parse failure no session is ever created.
SessionQuitExactlyOnce ==
    /\ quitCount <= 1
    /\ (~SessionCreated => quitCount = 0)
    /\ (pc = "exit" /\ SessionCreated => driver = "quit" /\ quitCount = 1)
    /\ (pc # "parse" /\ parsed.status # "ok" => ~SessionCreated)

\* a run that got as far as the extractor, failed there with an exception,
\* and has exited with the session quit
QuitAfterException ==
    /\ pc = "exit"
    /\ raised
    /\ "extract" \in Range(trace)
    /\ driver = "quit"
    /\ quitCount = 1

DownloadPassEnded ==
    "fetch" \in Range(trace) /\ ci > Len(Categories) /\ pc \in {"finally", "exit"}

\* C2: the exit code is 0 whenever main reaches the end of the download pass,
\* whatever the individual fetches did, and it is 1 exactly when the URL did
\* not parse, a login page was detected with the email or the password
\* missing, login_to_cryosparc returned False, or an exception escaped a step.
ExitCodeContract ==
    pc = "exit" =>
        /\ exitCode \in {0, 1}
        /\ (DownloadPassEnded => exitCode = 0)
        /\ exitCode = 1 <=>
              \/ parsed.status # "ok"
              \/ loginPage.detected /\ (email = <<>> \/ password = <<>>)
              \/ loginRun.called /\ ~loginRun.result
              \/ raised

\* a run that exits with 0 although one fetch raised and one URL was skipped
ExitZeroDespiteFailures ==
    /\ pc = "exit"
    /\ exitCode = 0
    /\ \E n \in 1..Len(attempts) : attempts[n].outcome = "raise"
    /\ \E n \in 1..Len(attempts) : attempts[n].outcome = "skipped"

\* number of entries in the categories before position k of the order
RECURSIVE EntriesBefore(_, _)
EntriesBefore(fl, k) ==
    IF k <= 1 THEN 0
    ELSE EntriesBefore(fl, k - 1) + Len(fl[Categories[k - 1]])

FailingOutcomes == {"raise", "empty", "skipped"}

\* C3: whatever subset of the entries fails (the fetch raises, returns no
\* content, or the URL trips the malformed-URL guard), a download is
\* attempted for every entry of every category, in list order; a failing
\* entry writes no file and does not end the loop.
EveryEntryAttempted ==
    pc \in {"download", "finally"} =>
        /\ Len(attempts) = EntriesBefore(file_links, ci) + idx
        /\ pc = "finally" =>
              Len(attempts) = EntriesBefore(file_links, Len(Categories) + 1)
        /\ \A k \in 1..Len(Categories) :
              \A i \in 1..Len(file_links[Categories[k]]) :
                  LET n == EntriesBefore(file_links, k) + i
                  IN  n <= Len(attempts) =>
                        /\ attempts[n].ext = Categories[k]
                        /\ attempts[n].idx = i - 1
                        /\ attempts[n].url = file_links[Categories[k]][i].url
        /\ \A n \in 1..Len(attempts) :
              /\ attempts[n].outcome \in FailingOutcomes <=> ~attempts[n].ok
              /\ Malformed(attempts[n].url) => attempts[n].outcome = "skipped"
              /\ attempts[n].outcome \in FailingOutcomes =>
                    \A p \in DOMAIN fs :
                        fs[p] # <<attempts[n].ext, attempts[n].idx>>

\* a finished pass in which the first fetch raised, a later entry of the same
\* category was written, and an entry of a later category was skipped
LaterEntriesAfterFailure ==
    /\ pc = "finally"
    /\ Len(attempts) >= 3
    /\ attempts[1].outcome = "raise"
    /\ attempts[2].ok
    /\ attempts[2].ext = attempts[1].ext
    /\ attempts[3].outcome = "skipped"
    /\ attempts[3].ext # attempts[1].ext

\* C4: after extract_file_links, no category's list holds two entries with
\* the same absolute address, whichever rule added them.
NoDuplicateAddress ==
    \A c \in CategorySet :
        \A i, j \in 1..Len(file_links[c]) :
            i # j => file_links[c][i].url # file_links[c][j].url

\* the names tried for a file, in order: the computed name, then the name
\* with _1, _2, ... in front of its extension
Candidate(filename, k) ==
    IF k = 0 THEN filename
    ELSE SplitExt(filename)[1] \o <<"_">> \o Str(k) \o SplitExt(filename)[2]

FirstFreeName(existing, a) ==
    \E k \in 0..Cardinality(existing) :
        /\ a.name = Candidate(a.filename, k)
        /\ PathOf(a.ext, Candidate(a.filename, k)) \notin existing
        /\ \A j \in 0..(k - 1) :
              PathOf(a.ext, Candidate(a.filename, j)) \in existing

\* C5: a download never writes to a path that holds a file: every file that
\* exists, from before the run or written earlier in it, keeps its content,
\* and the entry goes to the first free name among plot.png, plot_1.png,
\* plot_2.png, ...
NeverOverwrites ==
    [][pc = "download" =>
          /\ \A p \in DOMAIN fs : p \in DOMAIN fs' /\ fs'[p] = fs[p]
          /\ Len(attempts') > Len(attempts) =>
                FirstFreeName(DOMAIN fs, attempts'[Len(attempts')])]_vars

\* plot.png and plot_1.png were there before the run and are intact, and an
\* entry named plot.png has been written as plot_2.png
WrittenAsPlot2 ==
    /\ PlotPng \in DOMAIN fs /\ fs[PlotPng] = OldContent
    /\ Plot1Png \in DOMAIN fs /\ fs[Plot1Png] = OldContent
    /\ \E n \in 1..Len(attempts) :
          /\ attempts[n].ok
          /\ attempts[n].filename = <<"p","l","o","t",".","p","n","g">>
          /\ attempts[n].name = <<"p","l","o","t","_","2",".","p","n","g">>
          /\ fs[PathOf("png", <<"p","l","o","t","_","2",".","p","n","g">>)] = <<"png", attempts[n].idx>>

ParsedAs(base_url, project, job) ==
    parsed = [status |-> "ok", base |-> base_url, project |-> project,
              job |-> job]

\* the fragment holds job( followed by at least one character other than )
\* and then ); Token is what the leftmost such occurrence encloses
PatternAt(f, i, j) ==
    /\ i + 4 < j
    /\ j <= Len(f)
    /\ SubSeq(f, i, i + 3) = <<"j","o","b","(">>
    /\ f[j] = ")"
    /\ \A k \in (i + 4)..(j - 1) : f[k] # ")"

HasJobPattern(f) == \E i, j \in 1..Len(f) : PatternAt(f, i, j)

Token(f) ==
    LET i == CHOOSE i \in 1..Len(f) :
                /\ \E j \in 1..Len(f) : PatternAt(f, i, j)
                /\ \A h \in 1..(i - 1) : \A j \in 1..Len(f) : ~PatternAt(f, h, j)
        j == CHOOSE j \in 1..Len(f) : PatternAt(f, i, j)
    IN  SubSeq(f, i + 4, j - 1)

Hyphens(t) == Cardinality({k \in 1..Len(t) : t[k] = "-"})

FragmentOf(u) ==
    IF \E k \in 1..Len(u) : u[k] = "#"
    THEN From(u, CHOOSE k \in 1..Len(u) : u[k] = "#" /\ \A h \in 1..(k - 1) : u[h] # "#")
    ELSE <<>>

RejectsBadFragments ==
    (~HasJobPattern(FragmentOf(url)) \/ Hyphens(Token(FragmentOf(url))) # 1)
        => parsed.status = "ValueError"

\* C6 as stated: parse_job_url returns exactly (scheme://host, PROJECT, JOB)
\* for every URL scheme://host/...#job(PROJECT-JOB), and fails when the
\* fragment holds no job(...) or the token does not hold exactly one hyphen.
ParseReturnsUrlAsWritten ==
    pc # "parse" =>
        /\ \A s \in Schemes, h \in Hosts, p \in Paths, a \in Ids, b \in Ids :
              url = JobUrl(s, h, p, a, b) => ParsedAs(s \o <<":","/","/">> \o h, a, b)
        /\ RejectsBadFragments

\* C6 amended: the scheme of the returned base address is lower-cased; the
\* host, the project and the job are returned as written.
ParseReturnsLowercasedScheme ==
    pc # "parse" =>
        /\ \A s \in Schemes, h \in Hosts, p \in Paths, a \in Ids, b \in Ids :
              url = JobUrl(s, h, p, a, b) =>
                  ParsedAs(Lower(s) \o <<":","/","/">> \o h, a, b)
        /\ RejectsBadFragments

\* the URL of the script's usage text has been parsed, and so has a URL
\* whose token holds two hyphens
ParsedExampleUrl ==
    /\ pc = "mkdir"
    /\ url = <<"h","t","t","p",":","/","/","m","a","r","s",":","4","2","0","0","0","/","b","r","o","w","s","e","/","P","2","2","-","W","1","1","-","J","*","#","j","o","b","(","P","2","2","-","J","4","7","5",")">>
    /\ ParsedAs(<<"h","t","t","p",":","/","/","m","a","r","s",":","4","2","0","0","0">>, <<"P","2","2">>, <<"J","4","7","5">>)

\* the text is [, spaces, the category name in any letter case, spaces, ]
\* once surrounding whitespace is removed
IsBracketTag(text, c) ==
    \E lead, gapL, gapR \in 0..Len(text) :
        LET first == lead + 1
            last == first + 1 + gapL + Len(ExtChars[c]) + gapR
        IN  /\ last <= Len(text)
            /\ \A k \in 1..lead : text[k] \in Whitespace
            /\ \A k \in (last + 1)..Len(text) : text[k] \in Whitespace
            /\ text[first] = "["
            /\ text[last] = "]"
            /\ \A k \in 1..gapL : text[first + k] \in Whitespace
            /\ \A k \in 1..Len(ExtChars[c]) :
                  LowerChar(text[first + gapL + k]) = ExtChars[c][k]
            /\ \A k \in 1..gapR : text[last - k] \in Whitespace

EndsInExtension(href, c) ==
    /\ Len(href) > Len(ExtChars[c])
    /\ href[Len(href) - Len(ExtChars[c])] = "."
    /\ \A k \in 1..Len(ExtChars[c]) :
          LowerChar(href[Len(href) - Len(ExtChars[c]) + k]) = ExtChars[c][k]

Recorded(fl, c, u) == \E i \in 1..Len(fl[c]) : fl[c][i].url = u

Classified(a, before, after, u) ==
    /\ \A c \in CategorySet :
          IsBracketTag(a.text, c) => Recorded(after, c, u)
    /\ \A c \in CategorySet :
          /\ \A d \in CategorySet : ~IsBracketTag(a.text, d)
          /\ EndsInExtension(a.href, c)
          => Recorded(after, c, u)
    /\ (\A c \in CategorySet :
            ~IsBracketTag(a.text, c) /\ ~EndsInExtension(a.href, c))
          => after = before

\* C7: an anchor whose trimmed text is a bracketed category tag, in any
\* letter case, and that has an href is recorded under that category; one
\* whose text is no tag but whose href ends in a category extension is
\* recorded under that category; one matching neither is recorded nowhere.
ClassifiesAnchors ==
    [][pc = "extract" /\ ai' = ai + 1 /\ ~anchors[ai + 1].stale
          /\ anchors[ai + 1].href # <<>>
        => Classified(anchors[ai + 1], file_links, file_links',
                      UrlJoin(parsed.base, anchors[ai + 1].href))]_vars

\* the page <a href="/d/m.BILD">x</a><a href="/f/2"> [ pdf ]</a> has been
\* scanned: the first anchor is under bild, the second under pdf
ClassifiedBothWays ==
    /\ pc = "download"
    /\ anchors = <<Anchor(<<"x">>, <<"/","d","/","m",".","B","I","L","D">>, <<>>),
                   Anchor(<<" ","["," ","p","d","f"," ","]">>, <<"/","f","/","2">>, <<"t",".","p","d","f",".","p","d","f">>)>>
    /\ Recorded(file_links, "bild", <<"h","t","t","p",":","/","/","h","/","d","/","m",".","B","I","L","D">>)
    /\ Recorded(file_links, "pdf", <<"h","t","t","p",":","/","/","h","/","f","/","2">>)
    /\ file_links["png"] = <<>>

NameIs(f, c, i, item) ==
    LET dot == <<".">> \o ExtChars[c]
        declared == IF item.tuple THEN item.name ELSE <<>>
        base == Basename(UrlParse(item.url).path)
        doubled == \E k \in 0..Len(declared) :
                        declared = Upto(declared, k) \o dot \o dot
    IN  \/ /\ declared # <<>>
           /\ doubled
           /\ \E k \in 0..Len(declared) :
                 /\ declared = Upto(declared, k) \o dot \o dot
                 /\ f = Upto(declared, k) \o dot
        \/ declared # <<>> /\ ~doubled /\ f = declared
        \/ declared = <<>> /\ Len(base) < 3 /\ f = <<"f","i","l","e","_">> \o Str(i) \o dot
        \/ /\ declared = <<>>
           /\ Len(base) >= 3
           /\ f = IF EndsWith(base, dot) THEN base ELSE base \o dot

\* C8: the target file name is the declared download name when there is one,
\* a trailing .ext.ext collapsed to .ext; otherwise the basename of the URL
\* path, replaced by file_{index}.ext when shorter than 3 characters, and
\* with .ext appended when it does not end in it.
TargetNameContract ==
    \A n \in 1..Len(attempts) :
        NameIs(attempts[n].filename, attempts[n].ext, attempts[n].idx,
               file_links[attempts[n].ext][attempts[n].idx + 1])

\* t.pdf.pdf has been saved as t.pdf, and the URL /d/ab as file_0.txt
SavedCollapsedName ==
    /\ \E n \in 1..Len(attempts) :
          /\ attempts[n].ext = "pdf"
          /\ file_links["pdf"][attempts[n].idx + 1].name = <<"t",".","p","d","f",".","p","d","f">>
          /\ attempts[n].ok
          /\ attempts[n].name = <<"t",".","p","d","f">>
          /\ PathOf("pdf", <<"t",".","p","d","f">>) \in DOMAIN fs
    /\ \E n \in 1..Len(attempts) :
          /\ attempts[n].url = <<"h","t","t","p",":","/","/","h","/","d","/","a","b">>
          /\ attempts[n].filename = <<"f","i","l","e","_","0",".","t","x","t">>

\* C9: with the login form present, login_to_cryosparc returns True only if
\* the credentials were filled in, the submit control was clicked and the
\* page is no login page afterwards, and False in every other case; it
\* returns True without submitting only when the form was not found.
LoginReturnContract ==
    loginRun.called =>
        /\ loginRun.form =>
              (loginRun.result <=>
                  loginRun.filled /\ loginRun.clicked /\ ~loginRun.stillLogin)
        /\ loginRun.result /\ ~loginRun.clicked => ~loginRun.form

StepOrder == <<"parse", "mkdir", "setup", "load", "login", "reload", "wait",
               "extract", "fetch", "quit">>
Rank(step) == CHOOSE k \in 1..Len(StepOrder) : StepOrder[k] = step
OnlyWhenLoginNeeded == {"login", "reload"}
PastAuthentication ==
    \/ pc \in {"wait", "debug", "find", "extract", "download"}
    \/ \E i \in 1..Len(trace) : trace[i] \in {"wait", "extract", "fetch"}
    \/ attempts # <<>>

\* C10: the steps of main occur in the order parse, build output tree, start
\* browser, load page, authenticate if needed, reload, wait for render,
\* extract, fetch, close browser.  When a login page is detected, nothing is
\* extracted or fetched unless both credentials were given, the login
\* returned True and the page was reloaded; with a credential missing no
\* login is attempted and the run aborts.
MainFlowOrder ==
    /\ \A i, j \in 1..Len(trace) : i < j => Rank(trace[i]) < Rank(trace[j])
    /\ \A i \in 1..Len(trace) :
          trace[i] # "quit" =>
              \A k \in 1..(Rank(trace[i]) - 1) :
                  StepOrder[k] \notin OnlyWhenLoginNeeded
                      => StepOrder[k] \in Range(trace)
    /\ "quit" \in Range(trace) => "setup" \in Range(trace)
    /\ ~loginPage.detected =>
          "login" \notin Range(trace) /\ "reload" \notin Range(trace)
    /\ loginPage.detected /\ PastAuthentication =>
          /\ email # <<>>
          /\ password # <<>>
          /\ loginRun.called
          /\ loginRun.result
          /\ \E i, j \in 1..Len(trace) :
                i < j /\ trace[i] = "login" /\ trace[j] = "reload"
    /\ loginPage.detected /\ (email = <<>> \/ password = <<>>) =>
          /\ ~loginRun.called
          /\ "login" \notin Range(trace)
          /\ pc \in {"credentials", "finally", "exit"}
          /\ pc = "exit" => exitCode = 1

\* a run that met the login page, logged in, reloaded, fetched and quit
FetchedAfterLogin ==
    /\ pc = "exit"
    /\ loginPage.detected
    /\ loginRun.clicked
    /\ trace = StepOrder
    /\ \E n \in 1..Len(attempts) : attempts[n].ok

====
